---- MODULE Spec2Model ----
(***************************************************************************)
(* git_hash_chooser: search for an author/committer timestamp pair that    *)
(* gives a commit a hash with a chosen prefix (src/main.rs).               *)
(*                                                                         *)
(* Text is a sequence of symbols.  A symbol is one character, except that  *)
(* the words the program compares against ("author", "committer", the two  *)
(* placeholders) and a few filler words are single symbols.                *)
(***************************************************************************)
EXTENDS Integers, Sequences, FiniteSets, TLC

\* ------------------------------------------------------------------ bounds

\* Seconds per minute.  The program multiplies by 60 (main.rs:89-90); the
\* model scales the factor down so that the offset rows can be enumerated.
SecondsPerMinute == 2

\* How many candidate texts get a digest other than BaseDigest.
MaxSpecial == 1

\* ------------------------------------------------------------ text helpers

NL == "\n"
SP == " "
TAB == "\t"

\* char::is_whitespace on the symbols of the model
IsWhitespace(ch) == ch \in {SP, TAB, NL}

Digits == <<"0", "1", "2", "3", "4", "5", "6", "7", "8", "9">>

IsDigit(ch) == \E i \in 1..10 : Digits[i] = ch

DigitValue(ch) == (CHOOSE i \in 1..10 : Digits[i] = ch) - 1

RECURSIVE NatToString(_)
NatToString(n) ==
    IF n < 10 THEN <<Digits[n + 1]>>
    ELSE NatToString(n \div 10) \o <<Digits[(n % 10) + 1]>>

\* i64::to_string
to_string(n) == IF n < 0 THEN <<"-">> \o NatToString(-n) ELSE NatToString(n)

RECURSIVE DigitsValue(_, _)
DigitsValue(s, acc) ==
    IF s = <<>> THEN acc
    ELSE DigitsValue(Tail(s), 10 * acc + DigitValue(Head(s)))

AllDigits(s) == s # <<>> /\ \A i \in 1..Len(s) : IsDigit(s[i])

\* str::parse::<i64>().unwrap_or(0): an optional sign, then one or more
\* digits; anything else is a parse error and gives 0.
ParseOrZero(tok) ==
    IF AllDigits(tok) THEN DigitsValue(tok, 0)
    ELSE IF tok # <<>> /\ Head(tok) = "+" /\ AllDigits(Tail(tok))
         THEN DigitsValue(Tail(tok), 0)
    ELSE IF tok # <<>> /\ Head(tok) = "-" /\ AllDigits(Tail(tok))
         THEN -DigitsValue(Tail(tok), 0)
    ELSE 0

\* str::split(sep): the pieces between the separators, empty pieces kept
RECURSIVE SplitOn(_, _, _)
SplitOn(s, sep, cur) ==
    IF s = <<>> THEN <<cur>>
    ELSE IF Head(s) = sep THEN <<cur>> \o SplitOn(Tail(s), sep, <<>>)
    ELSE SplitOn(Tail(s), sep, Append(cur, Head(s)))

\* str::split_whitespace: the maximal runs of non-whitespace symbols
RECURSIVE SplitWhitespaceFrom(_, _)
SplitWhitespaceFrom(s, cur) ==
    IF s = <<>> THEN (IF cur = <<>> THEN <<>> ELSE <<cur>>)
    ELSE IF IsWhitespace(Head(s))
         THEN (IF cur = <<>> THEN <<>> ELSE <<cur>>) \o SplitWhitespaceFrom(Tail(s), <<>>)
    ELSE SplitWhitespaceFrom(Tail(s), Append(cur, Head(s)))

SplitWhitespace(line) == SplitWhitespaceFrom(line, <<>>)

\* [String]::join(sep)
RECURSIVE Join(_, _)
Join(parts, sep) ==
    IF parts = <<>> THEN <<>>
    ELSE IF Len(parts) = 1 THEN parts[1]
    ELSE parts[1] \o sep \o Join(Tail(parts), sep)

\* str::replace(pattern, with) for a one-symbol pattern: every occurrence
RECURSIVE Replace(_, _, _)
Replace(s, pat, to) ==
    IF s = <<>> THEN <<>>
    ELSE (IF Head(s) = pat THEN to ELSE <<Head(s)>>) \o Replace(Tail(s), pat, to)

\* str::replace as a function of its receiver and arguments, so that a chain
\* of calls works on the value the previous call returned
ReplaceOf == [k \in Seq(STRING) \X STRING \X Seq(STRING) |-> Replace(k[1], k[2], k[3])]

\* str::starts_with
StartsWith(s, p) == Len(p) <= Len(s) /\ SubSeq(s, 1, Len(p)) = p

\* ------------------------------------------------- commit template builder

AuthorPlaceholder == "%(author_date_timestamp)i"
CommitterPlaceholder == "%(committer_date_timestamp)i"

\* struct CommitValues, as commit_to_format initialises it
EmptyValues ==
    [author_date_timestamp |-> 0, author_date_tz |-> <<>>,
     committer_date_timestamp |-> 0, committer_date_tz |-> <<>>]

\* format_words[length - 2] = placeholder
SetWord(words, i, w) == [words EXCEPT ![i] = w]

\* commit_line_to_format: [panic, line, values].  With fewer than two words
\* the index length - 2 is out of range and the program panics.
commit_line_to_format(line, aggregate_values) ==
    LET format_words == SplitWhitespace(line)
        length == Len(format_words)
        first_word == IF length = 0 THEN <<>> ELSE format_words[1]
    IN  IF length > 0 /\ first_word \in {<<"author">>, <<"committer">>}
        THEN IF length < 2
             THEN [panic |-> TRUE, line |-> <<>>, values |-> aggregate_values]
             ELSE LET ts == ParseOrZero(format_words[length - 1])
                      tz == format_words[length]
                  IN  IF first_word = <<"author">>
                      THEN [panic |-> FALSE,
                            line |-> Join(SetWord(format_words, length - 1,
                                                  <<AuthorPlaceholder>>), <<SP>>),
                            values |-> [aggregate_values EXCEPT
                                          !.author_date_timestamp = ts,
                                          !.author_date_tz = tz]]
                      ELSE [panic |-> FALSE,
                            line |-> Join(SetWord(format_words, length - 1,
                                                  <<CommitterPlaceholder>>), <<SP>>),
                            values |-> [aggregate_values EXCEPT
                                          !.committer_date_timestamp = ts,
                                          !.committer_date_tz = tz]]
        ELSE [panic |-> FALSE, line |-> Join(format_words, <<SP>>),
              values |-> aggregate_values]

\* the map over the lines of commit_to_format, threading aggregate_values
RECURSIVE FormatLines(_, _, _)
FormatLines(lines, done, aggregate_values) ==
    IF lines = <<>>
    THEN [panic |-> FALSE, lines |-> done, values |-> aggregate_values]
    ELSE LET r == commit_line_to_format(Head(lines), aggregate_values)
         IN  IF r.panic
             THEN [panic |-> TRUE, lines |-> done, values |-> aggregate_values]
             ELSE FormatLines(Tail(lines), Append(done, r.line), r.values)

\* commit_to_format: [panic, commit_format, values]
commit_to_format(commit) ==
    LET r == FormatLines(SplitOn(commit, NL, <<>>), <<>>, EmptyValues)
    IN  [panic |-> r.panic,
         commit_format |-> Join(r.lines, <<NL>>),
         values |-> r.values]

\* the two chained replace calls of the search loop (main.rs:126-134)
Substitute(commit_format, author_ts, committer_ts) ==
    ReplaceOf[<<ReplaceOf[<<commit_format, AuthorPlaceholder, to_string(author_ts)>>],
                CommitterPlaceholder, to_string(committer_ts)>>]

\* ------------------------------------------------------------ hash function

\* The digests of the model: two hex digits instead of forty.
BaseDigest == <<"f", "f">>
SpecialDigest == <<"0", "a">>

VARIABLES
    pc,             \* where the program is: "main", "load", "find", "format",
                    \* "search" or "exit"
    args,           \* struct Args: prefix, min, max
    head_commit,    \* what `git cat-file commit HEAD` prints, or LoadFailure
    special,        \* the texts SHA-1 maps to SpecialDigest
    old_commit,     \* the commit text show_proposal_for_git_head loaded
    commit_format,  \* the template of commit_to_format, NotBuilt before
    old_values,     \* the CommitValues of commit_to_format
    possibilities,  \* the candidate count find_beautiful_git_hash prints
    hash_count,     \* 16^len(prefix) as a u64: sixteen hex digits, lowest first
    row,            \* per committer_date_offset: "pending", "running",
                    \* "none" (closure returned None) or "found" (Some)
    cursor,         \* per running row: the next author_date_offset
    row_result,     \* per found row: what its closure returned
    bar,            \* the counter of the shared progress bar
    updates,        \* per row: how many times it called bar.update
    evaluated,      \* the <<author, committer>> offset pairs hashed so far
    result,         \* what find_beautiful_git_hash / main returned
    stdout          \* the proposal show_proposal_for_git_head printed

vars == <<pc, args, head_commit, special, old_commit, commit_format, old_values,
          possibilities, hash_count, row, cursor, row_result, bar, updates, evaluated,
          result, stdout>>

\* git_commit_hash: SHA-1 is an arbitrary function of the text, fixed for
\* the run; `special` chooses it among the functions of the model.
git_commit_hash(commit) == IF commit \in special THEN SpecialDigest ELSE BaseDigest

\* ------------------------------------------------------------------ inputs

\* A well-formed commit: author time 9, committer time 10.
GoodCommit ==
    <<"tree", SP, "t", NL,
      "author", SP, "n", SP, "9", SP, "+0000", NL,
      "committer", SP, "n", SP, "1", "0", SP, "+0100", NL,
      NL,
      "msg", NL>>

\* The same commit with an indented message line holding a double space.
MessyCommit ==
    <<"tree", SP, "t", NL,
      "author", SP, "n", SP, "9", SP, "+0000", NL,
      "committer", SP, "n", SP, "1", "0", SP, "+0100", NL,
      NL,
      TAB, "msg", SP, SP, "x", NL>>

\* A commit whose message has a line that is the single word author.
BrokenCommit ==
    <<"tree", SP, "t", NL,
      "author", SP, "n", SP, "9", SP, "+0000", NL,
      "committer", SP, "n", SP, "1", "0", SP, "+0100", NL,
      NL,
      "author", NL>>

LoadFailure == <<"Command failed">>

Commits == {GoodCommit, MessyCommit, BrokenCommit}

\* sixteen hex digits: the shortest prefix whose hash count leaves u64
LongPrefix == [i \in 1..16 |-> "0"]

Prefixes == {<<>>, <<"0">>, <<"f">>, <<"0", "0">>, <<"0", "A">>, <<"g">>, LongPrefix}

\* <<min, max>> in minutes
Windows == {<<-1, 0>>, <<0, 1>>, <<0, 0>>, <<1, 1>>, <<1, 0>>}

\* The runs of the model: the well-formed commit with every short prefix
\* and every window; the other commits, the failing load and the long prefix
\* with the windows that hold at most one candidate.
Inputs ==
    {i \in (Commits \cup {LoadFailure}) \X Prefixes \X Windows :
        (i[1] = GoodCommit /\ i[2] # LongPrefix) \/ i[3] \in {<<0, 0>>, <<1, 0>>}}

NotBuilt == <<"not built">>

\* ----------------------------------------------------------------- results

\* Result<Option<(String, String)>, Box<dyn Error>> and a panic, as records
Pending == [kind |-> "Pending", committer_date |-> <<>>, author_date |-> <<>>]
NoOp == [kind |-> "NoOp", committer_date |-> <<>>, author_date |-> <<>>]
Found(committer_date, author_date) ==
    [kind |-> "Found", committer_date |-> committer_date, author_date |-> author_date]
Failure(kind) == [kind |-> kind, committer_date |-> <<>>, author_date |-> <<>>]

\* ---------------------------------------------------- find_beautiful_git_hash

allowed_prefix_chars ==
    {"0", "1", "2", "3", "4", "5", "6", "7", "8", "9", "a", "b", "c", "d", "e", "f"}

\* a check that also lets the upper-case hex digits through
PrefixAllowedAnyCase(prefix) ==
    \A i \in 1..Len(prefix) :
        prefix[i] \in allowed_prefix_chars \cup {"A", "B", "C", "D", "E", "F"}

PrefixAllowed(prefix) == \A i \in 1..Len(prefix) : prefix[i] \in allowed_prefix_chars

\* main without its range check
RangeRejectedNever(a) == FALSE

RangeRejected(a) == a.min > a.max

LowerBound(min_minutes) == min_minutes * SecondsPerMinute
UpperBound(max_minutes) == max_minutes * SecondsPerMinute

lower_bound == LowerBound(args.min)
upper_bound == UpperBound(args.max)
bound == upper_bound - lower_bound

\* the count of the full square of offsets
PossibilitiesSquare(b) == (b + 1) * (b + 1)

Possibilities(b) == ((b + 1) * (b + 2)) \div 2

\* u64 values as sixteen hex digits, lowest first
U64Digits == 1..16
U64Zero == [i \in U64Digits |-> 0]
U64One == [i \in U64Digits |-> IF i = 1 THEN 1 ELSE 0]

\* wrapping multiplication by 16: every hex digit moves up one place and
\* the highest is lost
U64Times16(x) == [i \in U64Digits |-> IF i = 1 THEN 0 ELSE x[i - 1]]

\* 16u64.pow(exp) by repeated wrapping multiplication
RECURSIVE U64Pow16(_)
U64Pow16(exp) == IF exp = 0 THEN U64One ELSE U64Times16(U64Pow16(exp - 1))

\* the multiplications of pow overflow: 16^exp does not fit sixteen digits
PowOverflows(exp) == exp >= 16

\* hash_count = (allowed_prefix_chars.len() as u64).pow(prefix.len() as u32)
HashCount(prefix_len) == U64Pow16(prefix_len)

\* a replace that works in place: the receiver becomes the replaced text
ReplaceInPlace(receiver, replaced) == replaced

\* str::replace returns a new String: the receiver stays as it is
ReplaceReceiver(receiver, replaced) == receiver

committer_date_offsets == lower_bound..upper_bound

\* the inner loop running downwards from committer_date_offset
AuthorOffsetsDescending(committer_date_offset) ==
    [i \in 1..(committer_date_offset - lower_bound + 1) |-> committer_date_offset - i + 1]

\* the inner loop with an exclusive range, lower_bound..committer_date_offset
AuthorOffsetsExclusive(committer_date_offset) ==
    [i \in 1..(committer_date_offset - lower_bound) |-> lower_bound + i - 1]

\* the inner loop running up to upper_bound
AuthorOffsetsToUpper(committer_date_offset) ==
    [i \in 1..(upper_bound - lower_bound + 1) |-> lower_bound + i - 1]

\* the inner loop's range lower_bound..=committer_date_offset, in order
AuthorOffsets(committer_date_offset) ==
    [i \in 1..(committer_date_offset - lower_bound + 1) |-> lower_bound + i - 1]

\* the row's count taken twice
iter_countTwice(committer_date_offset) == 2 * (committer_date_offset - lower_bound + 1)

\* the row's count without the + 1
iter_countShort(committer_date_offset) == committer_date_offset - lower_bound

iter_count(committer_date_offset) == committer_date_offset - lower_bound + 1

NewValues(author_date_offset, committer_date_offset) ==
    [author_date_timestamp |-> old_values.author_date_timestamp + author_date_offset,
     author_date_tz |-> old_values.author_date_tz,
     committer_date_timestamp |->
         old_values.committer_date_timestamp + committer_date_offset,
     committer_date_tz |-> old_values.committer_date_tz]

FormatDate(timestamp, tz) == to_string(timestamp) \o <<SP>> \o tz

\* the two dates in the wrong order
MatchResultSwapped(author_date_offset, committer_date_offset, new_values) ==
    IF author_date_offset = 0 /\ committer_date_offset = 0
    THEN NoOp
    ELSE Found(FormatDate(new_values.author_date_timestamp,
                          new_values.author_date_tz),
               FormatDate(new_values.committer_date_timestamp,
                          new_values.committer_date_tz))

\* the closure without its test for the pair (0,0)
MatchResultAlwaysFound(author_date_offset, committer_date_offset, new_values) ==
    Found(FormatDate(new_values.committer_date_timestamp,
                     new_values.committer_date_tz),
          FormatDate(new_values.author_date_timestamp,
                     new_values.author_date_tz))

\* what the closure returns for a candidate whose hash starts with the prefix
MatchResult(author_date_offset, committer_date_offset, new_values) ==
    IF author_date_offset = 0 /\ committer_date_offset = 0
    THEN NoOp
    ELSE Found(FormatDate(new_values.committer_date_timestamp,
                          new_values.committer_date_tz),
               FormatDate(new_values.author_date_timestamp,
                          new_values.author_date_tz))

CandidateText(fmt, values, a, c) ==
    Substitute(fmt, values.author_date_timestamp + a, values.committer_date_timestamp + c)

\* every text the search can hash for a commit and a window
CandidateTexts(commit, min_minutes, max_minutes) ==
    LET r == commit_to_format(commit)
    IN  IF commit = LoadFailure \/ r.panic THEN {}
        ELSE {CandidateText(r.commit_format, r.values, a, c) :
                <<a, c>> \in {p \in (LowerBound(min_minutes)..UpperBound(max_minutes))
                                    \X (LowerBound(min_minutes)..UpperBound(max_minutes)) :
                                p[1] <= p[2]}}

\* the proposal line with the two dates exchanged
ProposalSwapped(values) ==
    IF values.kind = "Found"
    THEN <<"GIT_COMMITTER_DATE=", values.author_date, "--date=", values.committer_date>>
    ELSE IF values.kind = "NoOp" THEN <<"Nothing to do">>
    ELSE <<>>

\* the proposal line of show_proposal_for_git_head, as its two quoted fields
Proposal(values) ==
    IF values.kind = "Found"
    THEN <<"GIT_COMMITTER_DATE=", values.committer_date, "--date=", values.author_date>>
    ELSE IF values.kind = "NoOp" THEN <<"Nothing to do">>
    ELSE <<>>

\* ------------------------------------------------------------------ tables

\* commit_to_format and pow on the inputs of the model, tabulated
FormatOf == [commit \in Commits |-> commit_to_format(commit)]

HashCountOf == [n \in 0..16 |-> HashCount(n)]

\* -------------------------------------------------------------------- Init

Init ==
    /\ pc = "main"
    /\ \E i \in Inputs :
          /\ head_commit = i[1]
          /\ args = [prefix |-> i[2], min |-> i[3][1], max |-> i[3][2]]
    /\ special \in {s \in SUBSET CandidateTexts(head_commit, args.min, args.max) :
                      Cardinality(s) <= MaxSpecial}
    /\ old_commit = <<>>
    /\ commit_format = NotBuilt
    /\ old_values = EmptyValues
    /\ possibilities = 0
    /\ hash_count = U64Zero
    /\ row = <<>>
    /\ cursor = <<>>
    /\ row_result = <<>>
    /\ bar = 0
    /\ updates = <<>>
    /\ evaluated = {}
    /\ result = Pending
    /\ stdout = <<>>

\* ----------------------------------------------------------------- actions

\* main: parse the arguments, reject min > max
Main ==
    /\ pc = "main"
    /\ IF RangeRejected(args)
       THEN /\ result' = Failure("InvalidRange")
            /\ pc' = "exit"
       ELSE /\ pc' = "load"
            /\ UNCHANGED result
    /\ UNCHANGED <<args, head_commit, special, old_commit, commit_format, old_values,
                   possibilities, hash_count, row, cursor, row_result, bar, updates, evaluated,
                   stdout>>

\* show_proposal_for_git_head: load_git_commit("HEAD")?
LoadCommit ==
    /\ pc = "load"
    /\ IF head_commit = LoadFailure
       THEN /\ result' = Failure("SubprocessFailure")
            /\ pc' = "exit"
            /\ UNCHANGED old_commit
       ELSE /\ old_commit' = head_commit
            /\ pc' = "find"
            /\ UNCHANGED result
    /\ UNCHANGED <<args, head_commit, special, commit_format, old_values,
                   possibilities, hash_count, row, cursor, row_result, bar, updates, evaluated,
                   stdout>>

\* find_beautiful_git_hash, main.rs:83-86: the prefix check
CheckPrefix ==
    /\ pc = "find"
    /\ IF ~PrefixAllowed(args.prefix)
       THEN /\ result' = Failure("InvalidPrefix")
            /\ pc' = "exit"
       ELSE /\ pc' = "format"
            /\ UNCHANGED result
    /\ UNCHANGED <<args, head_commit, special, old_commit, commit_format, old_values,
                   possibilities, hash_count, row, cursor, row_result, bar, updates, evaluated,
                   stdout>>

\* main.rs:87-111: build the template, compute the bounds and the hash
\* count, set up the bar and the vector of rows.  When the power overflows,
\* a build with overflow checks (debug) panics and a build without (release)
\* wraps.
BuildFormat ==
    /\ pc = "format"
    /\ \E overflow_checks \in BOOLEAN :
       LET r == FormatOf[old_commit]
       IN  IF r.panic
           THEN /\ result' = Failure("Panic")
                /\ pc' = "exit"
                /\ UNCHANGED <<commit_format, old_values, possibilities, hash_count,
                               row, cursor, row_result, updates>>
           ELSE IF PowOverflows(Len(args.prefix)) /\ overflow_checks
           THEN /\ result' = Failure("OverflowPanic")
                /\ pc' = "exit"
                /\ UNCHANGED <<commit_format, old_values, possibilities, hash_count,
                               row, cursor, row_result, updates>>
           ELSE /\ commit_format' = r.commit_format
                /\ old_values' = r.values
                /\ possibilities' = Possibilities(bound)
                /\ hash_count' = HashCountOf[Len(args.prefix)]
                /\ row' = [c \in committer_date_offsets |-> "pending"]
                /\ cursor' = [c \in committer_date_offsets |-> 1]
                /\ row_result' = [c \in committer_date_offsets |-> Pending]
                /\ updates' = [c \in committer_date_offsets |-> 0]
                /\ pc' = "search"
                /\ UNCHANGED result
    /\ UNCHANGED <<args, head_commit, special, old_commit, bar, evaluated, stdout>>

\* a find_map_any whose match flag is never set
FullNever == FALSE

\* find_map_any has a match: it hands out no further item
Full == \E c \in DOMAIN row : row[c] = "found"

\* a pool that goes on taking rows after a match
StartRowAlways(c) ==
    /\ pc = "search"
    /\ row[c] = "pending"
    /\ row' = [row EXCEPT ![c] = "running"]
    /\ UNCHANGED <<pc, args, head_commit, special, old_commit, commit_format,
                   old_values, possibilities, hash_count, cursor, row_result, bar, updates,
                   evaluated, result, stdout>>

\* a worker takes the row of one committer_date_offset
StartRow(c) ==
    /\ pc = "search"
    /\ row[c] = "pending"
    /\ ~Full
    /\ row' = [row EXCEPT ![c] = "running"]
    /\ UNCHANGED <<pc, args, head_commit, special, old_commit, commit_format,
                   old_values, possibilities, hash_count, cursor, row_result, bar, updates,
                   evaluated, result, stdout>>

\* one turn of the inner loop, main.rs:116-150
TryCandidate(c) ==
    /\ pc = "search"
    /\ row[c] = "running"
    /\ cursor[c] \in DOMAIN AuthorOffsets(c)
    /\ LET author_date_offset == AuthorOffsets(c)[cursor[c]]
           new_values == NewValues(author_date_offset, c)
           commit == Substitute(commit_format, new_values.author_date_timestamp,
                                new_values.committer_date_timestamp)
       IN  /\ evaluated' = evaluated \cup {<<author_date_offset, c>>}
           /\ commit_format' = ReplaceReceiver(commit_format, commit)
           /\ IF StartsWith(git_commit_hash(commit), args.prefix)
              THEN /\ row' = [row EXCEPT ![c] = "found"]
                   /\ row_result' = [row_result EXCEPT
                                       ![c] = MatchResult(author_date_offset, c, new_values)]
                   /\ UNCHANGED cursor
              ELSE /\ cursor' = [cursor EXCEPT ![c] = @ + 1]
                   /\ UNCHANGED <<row, row_result>>
    /\ UNCHANGED <<pc, args, head_commit, special, old_commit, old_values,
                   possibilities, hash_count, bar, updates, result, stdout>>

\* the inner loop ended without a match, main.rs:151-152
FinishRow(c) ==
    /\ pc = "search"
    /\ row[c] = "running"
    /\ cursor[c] \notin DOMAIN AuthorOffsets(c)
    /\ bar' = bar + iter_count(c)
    /\ updates' = [updates EXCEPT ![c] = @ + 1]
    /\ row' = [row EXCEPT ![c] = "none"]
    /\ UNCHANGED <<pc, args, head_commit, special, old_commit, commit_format,
                   old_values, possibilities, hash_count, cursor, row_result, evaluated,
                   result, stdout>>

\* find_map_any returns once no row is running: some found row's value, or
\* None when every row returned None; then main.rs:154-158 and 187-195
Return ==
    /\ pc = "search"
    /\ \A c \in DOMAIN row : row[c] # "running"
    /\ IF Full
       THEN \E c \in DOMAIN row :
               /\ row[c] = "found"
               /\ result' = row_result[c]
       ELSE /\ \A c \in DOMAIN row : row[c] = "none"
            /\ result' = Failure("Exhausted")
    /\ stdout' = Proposal(result')
    /\ pc' = "exit"
    /\ UNCHANGED <<args, head_commit, special, old_commit, commit_format, old_values,
                   possibilities, hash_count, row, cursor, row_result, bar, updates, evaluated>>

Next ==
    \/ Main
    \/ LoadCommit
    \/ CheckPrefix
    \/ BuildFormat
    \/ \E c \in DOMAIN row : StartRow(c)
    \/ \E c \in DOMAIN row : TryCandidate(c)
    \/ \E c \in DOMAIN row : FinishRow(c)
    \/ Return

Spec == Init /\ [][Next]_vars

\* Every thread runs on: the main thread and the workers of the pool execute
\* bounded, non-blocking code (the only lock is held for one bar update).
FairSpec == Spec /\ WF_vars(Next)

\* The rows taken one at a time in ascending committer_date_offset order, as
\* a pool of one worker takes them.
StartRowInOrder(c) ==
    /\ StartRow(c)
    /\ \A d \in DOMAIN row : row[d] # "running"
    /\ \A d \in DOMAIN row : row[d] = "pending" => c <= d

SeqNext ==
    \/ Main
    \/ LoadCommit
    \/ CheckPrefix
    \/ BuildFormat
    \/ \E c \in DOMAIN row : StartRowInOrder(c)
    \/ \E c \in DOMAIN row : TryCandidate(c)
    \/ \E c \in DOMAIN row : FinishRow(c)
    \/ Return

SeqSpec == Init /\ [][SeqNext]_vars

\* ------------------------------------------------------------------ claims

Exited == pc = "exit"

\* find_beautiful_git_hash was called
SearchCalled == old_commit # <<>>

\* the parallel search ran: the prefix passed and the template was built
SearchRan == commit_format # NotBuilt

Returned == Exited /\ result.kind \in {"Found", "NoOp"}

\* the pairs lower_bound <= author_offset <= committer_offset <= upper_bound
Candidates ==
    {p \in (lower_bound..upper_bound) \X (lower_bound..upper_bound) : p[1] <= p[2]}

HexDigits ==
    {"0", "1", "2", "3", "4", "5", "6", "7", "8", "9", "a", "b", "c", "d", "e", "f"}

\* the hash of candidate p starts with the prefix
HashMatches(p) ==
    StartsWith(git_commit_hash(CandidateText(commit_format, old_values, p[1], p[2])),
               args.prefix)

TimestampToken(date) == SplitWhitespace(date)[1]

\* the offsets of the returned pair, read back from the returned dates
ReturnedPair ==
    IF result.kind = "Found"
    THEN <<ParseOrZero(TimestampToken(result.author_date))
              - old_values.author_date_timestamp,
           ParseOrZero(TimestampToken(result.committer_date))
              - old_values.committer_date_timestamp>>
    ELSE <<0, 0>>

Precedes(p, q) == p[2] < q[2] \/ (p[2] = q[2] /\ p[1] < q[1])

FoundRows == {c \in DOMAIN row : row[c] = "found"}

\* C1: whenever the search returns Found(committer_date, author_date), and
\* for every found row's value under any interleaving, putting the returned
\* author and committer timestamps into the template gives a text whose
\* hash starts with the prefix.
C1_FoundHashHasPrefix ==
    \A r \in {result} \cup {row_result[c] : c \in DOMAIN row_result} :
        r.kind = "Found" =>
            StartsWith(
                git_commit_hash(
                    Replace(Replace(commit_format, AuthorPlaceholder,
                                    TimestampToken(r.author_date)),
                            CommitterPlaceholder, TimestampToken(r.committer_date))),
                args.prefix)

\* C1 witness: a race of two matching rows ended in Found, for a prefix that
\* not every hash has.
C1_Witness ==
    /\ Exited
    /\ result.kind = "Found"
    /\ args.prefix = <<"f">>
    /\ special # {}
    /\ Cardinality(FoundRows) >= 2

\* C2 as claimed: no candidate before the returned pair, in the order
\* committer_offset ascending then author_offset ascending, has a hash that
\* starts with the prefix.
C2_FirstInEnumerationOrder ==
    (Returned /\ args.prefix # <<>>) =>
        \A p \in Candidates : Precedes(p, ReturnedPair) => ~HashMatches(p)

\* C2 amended: the returned pair matches and is the first match of its own
\* committer_offset row: no candidate of that row with a smaller
\* author_offset matches (rows race, so an earlier row may hold a match).
C2_FirstInRow ==
    Returned =>
        /\ ReturnedPair \in Candidates
        /\ HashMatches(ReturnedPair)
        /\ \A p \in Candidates :
              (p[2] = ReturnedPair[2] /\ p[1] < ReturnedPair[1]) => ~HashMatches(p)

\* C2 witness: the returned pair is not the first of its row, and an earlier
\* row holds a match that was not returned.
C2_Witness ==
    /\ Returned
    /\ args.prefix # <<>>
    /\ ReturnedPair[1] > lower_bound
    /\ \E p \in Candidates : p[2] < ReturnedPair[2] /\ HashMatches(p)

\* C3 as claimed: if 0 lies in the bounds and the hash of the unmodified
\* commit starts with the (non-empty) prefix, the search returns NoOp.
C3_NoOpPrecedence ==
    (/\ Exited
     /\ SearchRan
     /\ args.prefix # <<>>
     /\ <<0, 0>> \in Candidates
     /\ StartsWith(git_commit_hash(old_commit), args.prefix)
     /\ HashMatches(<<0, 0>>))
        => result.kind = "NoOp"

RECURSIVE SumCounts(_)
SumCounts(rows) ==
    IF rows = {} THEN 0
    ELSE LET c == CHOOSE x \in rows : TRUE
         IN  (c - lower_bound + 1) + SumCounts(rows \ {c})

C5_EmptyPrefixRejected ==
    (SearchCalled /\ args.prefix = <<>>) =>
        /\ evaluated = {}
        /\ result.kind \notin {"NoOp", "Found"}
        /\ (Exited /\ result.kind # "Panic") => result.kind = "InvalidPrefix"

\* C6: a search called with a prefix that holds a character outside 0-9a-f
\* fails with InvalidPrefix, and the template is never built, no candidate
\* is hashed and the progress counter stays at 0.
C6_InvalidPrefixRejected ==
    (SearchCalled /\ \E i \in 1..Len(args.prefix) : args.prefix[i] \notin HexDigits) =>
        /\ commit_format = NotBuilt
        /\ evaluated = {}
        /\ bar = 0
        /\ pc \in {"find", "exit"}
        /\ Exited => result.kind = "InvalidPrefix"

\* C6 witness: a prefix with an upper-case hex digit was rejected.
C6_Witness ==
    /\ Exited
    /\ SearchCalled
    /\ \E i \in 1..Len(args.prefix) : args.prefix[i] = "A"
    /\ result.kind = "InvalidPrefix"

\* C7: once the search has run, it returns Exhausted if and only if no
\* candidate in the bounds has a hash starting with the prefix, and then
\* every candidate in the bounds has been evaluated.
C7_ExhaustedIffNoMatch ==
    (Exited /\ SearchRan) =>
        /\ (result.kind = "Exhausted") <=> (\A p \in Candidates : ~HashMatches(p))
        /\ result.kind = "Exhausted" => evaluated = Candidates

\* C7 witness: Exhausted after several rows, with a text whose digest shares
\* only the first digit with the prefix.
C7_Witness ==
    /\ Exited
    /\ result.kind = "Exhausted"
    /\ Cardinality(evaluated) >= 3
    /\ special # {}

\* C8: every evaluated pair and every returned pair has
\* lower_bound <= author_offset <= committer_offset <= upper_bound.
C8_PairsInBounds ==
    /\ \A p \in evaluated :
          lower_bound <= p[1] /\ p[1] <= p[2] /\ p[2] <= upper_bound
    /\ Returned =>
          /\ lower_bound <= ReturnedPair[1]
          /\ ReturnedPair[1] <= ReturnedPair[2]
          /\ ReturnedPair[2] <= upper_bound

\* C8 witness: a pair with author_offset < committer_offset was returned
\* from a window with a negative lower bound.
C8_Witness ==
    /\ Exited
    /\ result.kind = "Found"
    /\ args.prefix # <<>>
    /\ lower_bound < 0
    /\ ReturnedPair[1] < ReturnedPair[2]

\* C9: a request with min > max fails with InvalidRange before the search
\* begins: the commit is not loaded, no candidate is evaluated and the
\* outcome is the range error.
C9_InvalidRangeRejected ==
    args.min > args.max =>
        /\ ~SearchCalled
        /\ evaluated = {}
        /\ pc \in {"main", "exit"}
        /\ Exited => result.kind = "InvalidRange"

\* C9 witness: a request with min > max ended with the range error.
C9_Witness ==
    /\ Exited
    /\ args.min > args.max
    /\ result.kind = "InvalidRange"

\* C10 as claimed: substituting the baseline timestamps into the template
\* gives back the commit text.
C10_TemplateRoundTrip ==
    SearchRan =>
        Substitute(commit_format, old_values.author_date_timestamp,
                   old_values.committer_date_timestamp) = old_commit

\* C11: with lower_bound = upper_bound = 0 the search evaluates exactly the
\* candidate (0,0) and returns NoOp when its hash starts with the prefix and
\* Exhausted otherwise, never Found.
C11_DegenerateBound ==
    (SearchRan /\ lower_bound = 0 /\ upper_bound = 0) =>
        /\ evaluated \subseteq {<<0, 0>>}
        /\ \A c \in DOMAIN row_result : row_result[c].kind # "Found"
        /\ Exited =>
              /\ evaluated = {<<0, 0>>}
              /\ result.kind = (IF HashMatches(<<0, 0>>) THEN "NoOp" ELSE "Exhausted")

\* C11 witness: the window [0,0] ended in NoOp for a prefix only the special
\* digest has.
C11_Witness ==
    /\ Exited
    /\ lower_bound = 0
    /\ upper_bound = 0
    /\ args.prefix = <<"0">>
    /\ result.kind = "NoOp"

\* what a finished run can surface: NoOp, Found, an Err of main or a panic
Outcomes ==
    {"NoOp", "Found", "InvalidRange", "SubprocessFailure", "InvalidPrefix",
     "Exhausted", "Panic", "OverflowPanic"}

\* C12: every run ends, and it surfaces exactly one outcome: nothing is
\* surfaced before the end, the outcome is NoOp, Found or a terminal failure,
\* and a match of another row never replaces or follows it.
C12_TerminatesWithOneOutcome ==
    /\ <>[](Exited /\ result.kind \in Outcomes)
    /\ [](~Exited => (result = Pending /\ stdout = <<>>))
    /\ [][Exited => (result' = result /\ stdout' = stdout /\ pc' = pc)]_vars
    /\ [](Exited =>
            (result.kind \in {"NoOp", "Found"} =>
                \E c \in FoundRows : result = row_result[c]))

\* C12 witness: two rows held different matches and one Found was surfaced.
C12_Witness ==
    /\ Exited
    /\ result.kind = "Found"
    /\ \E c, d \in FoundRows : row_result[c] # row_result[d]

\* the candidates of each dispatched row
RowPairs(c) == {<<AuthorOffsets(c)[i], c>> : i \in DOMAIN AuthorOffsets(c)}

RECURSIVE SumLen(_)
SumLen(rows) ==
    IF rows = {} THEN 0
    ELSE LET c == CHOOSE x \in rows : TRUE
         IN  Len(AuthorOffsets(c)) + SumLen(rows \ {c})

\* C13: the rows the engine dispatches hold every pair with
\* lower_bound <= author_offset <= committer_offset <= upper_bound exactly
\* once, and the number of pairs is the reported possibilities,
\* (bound+1)(bound+2)/2; a search that ends Exhausted has evaluated them all.
C13_RowsCoverCandidates ==
    SearchRan =>
        /\ DOMAIN row = lower_bound..upper_bound
        /\ UNION {RowPairs(c) : c \in DOMAIN row} = Candidates
        /\ \A c \in DOMAIN row : Cardinality(RowPairs(c)) = Len(AuthorOffsets(c))
        /\ SumLen(DOMAIN row) = Cardinality(Candidates)
        /\ possibilities = Cardinality(Candidates)
        /\ possibilities * 2 = (bound + 1) * (bound + 2)
        /\ (Exited /\ result.kind = "Exhausted") => evaluated = Candidates

\* C13 witness: a window of several rows was searched to the end.
C13_Witness ==
    /\ Exited
    /\ result.kind = "Exhausted"
    /\ bound >= 2
    /\ possibilities >= 6

\* the author offset a found row matched at
MatchedAuthor(c) == lower_bound + cursor[c] - 1

\* C14: a found row's value is NoOp exactly for the pair (0,0) and otherwise
\* Found with the committer date "<committer timestamp + committer_offset>
\* <committer timezone>" first and the author date "<author timestamp +
\* author_offset> <author timezone>" second; the proposal line puts the
\* committer date in GIT_COMMITTER_DATE and the author date in --date.
C14_FoundCarriesDates ==
    /\ \A c \in FoundRows :
          IF MatchedAuthor(c) = 0 /\ c = 0
          THEN row_result[c] = NoOp
          ELSE /\ row_result[c].kind = "Found"
               /\ row_result[c].committer_date =
                     to_string(old_values.committer_date_timestamp + c)
                        \o <<SP>> \o old_values.committer_date_tz
               /\ row_result[c].author_date =
                     to_string(old_values.author_date_timestamp + MatchedAuthor(c))
                        \o <<SP>> \o old_values.author_date_tz
    /\ (Exited /\ result.kind = "Found") =>
          /\ \E c \in FoundRows : result = row_result[c]
          /\ stdout = <<"GIT_COMMITTER_DATE=", result.committer_date,
                        "--date=", result.author_date>>
    /\ (Exited /\ result.kind = "NoOp") =>
          /\ 0 \in FoundRows /\ MatchedAuthor(0) = 0
          /\ stdout = <<"Nothing to do">>

\* C14 witness: a proposal was printed for a pair of different offsets.
C14_Witness ==
    /\ Exited
    /\ result.kind = "Found"
    /\ args.prefix # <<>>
    /\ ReturnedPair[1] # ReturnedPair[2]
    /\ Len(stdout) = 4

\* the first matching candidate in enumeration order
FirstMatch ==
    CHOOSE p \in Candidates :
        HashMatches(p) /\ \A q \in Candidates : Precedes(q, p) => ~HashMatches(q)

\* C15: with the rows taken one at a time in ascending order the result is
\* a function of the template, the baseline, the prefix, the bounds and the
\* hash function alone: Exhausted when nothing matches, else the first match
\* in enumeration order, as NoOp for (0,0) and as Found otherwise.  Two runs
\* on identical inputs therefore return the identical result.
C15_SequentialDeterminism ==
    (Exited /\ SearchRan) =>
        IF \A p \in Candidates : ~HashMatches(p)
        THEN result = Failure("Exhausted")
        ELSE IF FirstMatch = <<0, 0>>
        THEN result = NoOp
        ELSE result =
                Found(to_string(old_values.committer_date_timestamp + FirstMatch[2])
                         \o <<SP>> \o old_values.committer_date_tz,
                      to_string(old_values.author_date_timestamp + FirstMatch[1])
                         \o <<SP>> \o old_values.author_date_tz)

\* C15 witness: a sequential run returned Found although a later row held a
\* match too.
C15_Witness ==
    /\ Exited
    /\ result.kind = "Found"
    /\ args.prefix # <<>>
    /\ \E p \in Candidates : p[2] > ReturnedPair[2] /\ HashMatches(p)

C17_SearchFrame ==
    [][pc = "search" =>
          /\ commit_format' = commit_format
          /\ old_values' = old_values
          /\ old_commit' = old_commit
          /\ head_commit' = head_commit
          /\ args' = args
          /\ possibilities' = possibilities
          /\ hash_count' = hash_count]_vars

\* C17 witness: a search that hashed several candidates, advanced the counter
\* and returned a match.
C17_Witness ==
    /\ Exited
    /\ args.prefix # <<>>
    /\ result.kind = "Found"
    /\ bar > 0
    /\ Cardinality(evaluated) >= 3

\* C18: the progress counter never decreases, it is the sum of the candidate
\* counts of the rows that completed without a match whatever the order they
\* completed in, it never exceeds (bound+1)(bound+2)/2, and it equals that
\* total when the search ends in Exhausted.
C18_CounterMonotoneAndExact ==
    /\ [][bar' >= bar]_vars
    /\ [](~SearchRan => bar = 0)
    /\ [](SearchRan =>
            /\ bar = SumCounts({c \in DOMAIN row : row[c] = "none"})
            /\ 2 * bar <= (bound + 1) * (bound + 2)
            /\ (Exited /\ result.kind = "Exhausted") =>
                  2 * bar = (bound + 1) * (bound + 2))

\* C18 witness: two rows were in flight together, both advanced the counter,
\* and the search ended in Exhausted with the counter at the total.
C18_Witness ==
    /\ Exited
    /\ result.kind = "Exhausted"
    /\ bound >= 1
    /\ bar >= 3
    /\ 2 * bar = (bound + 1) * (bound + 2)

\* C19: building the template never fails, whatever the commit text: a run
\* with an accepted prefix never ends in the panic of an out-of-range token
\* access.
C19_TemplateNeverFails ==
    (args.prefix # <<>> /\ ~PowOverflows(Len(args.prefix))) => result.kind # "Panic"

\* the u64 with the single digit 1 at position exp: 16^exp
U64Exact(exp) == [i \in U64Digits |-> IF i = exp + 1 THEN 1 ELSE 0]

\* C20: for every accepted prefix the hash count 16^len(prefix) is computed
\* without overflow: the computation does not fail, and the value is the
\* mathematical power and is not 0.
C20_HashCountExact ==
    (args.prefix # <<>> /\ PrefixAllowed(args.prefix)) =>
        /\ result.kind # "OverflowPanic"
        /\ SearchRan =>
              /\ hash_count # U64Zero
              /\ hash_count = U64Exact(Len(args.prefix))

====
